---------------------------- MODULE Spec2Model ----------------------------
(***************************************************************************)
(* km-api: typed endpoint descriptors with helper operations.              *)
(*                                                                         *)
(* The library is a set of synchronous pure functions closed over one      *)
(* immutable descriptor (entryConfig).  The model keeps the descriptor and *)
(* the call the consumer has just made (operation, arguments, outcome);    *)
(* the consumer makes one call at a time and moves on to its next          *)
(* statement before making another.                                        *)
(* Strings are TLA+ strings; JavaScript values are tagged records.         *)
(***************************************************************************)
EXTENDS Integers, Sequences, FiniteSets

VARIABLES entryConfig, op, args, ret, invoked

vars == <<entryConfig, op, args, ret, invoked>>

(***************************************************************************)
(* Bounds of the model.                                                    *)
(***************************************************************************)
\* a path template is the concatenation of at most MaxPieces pieces
MaxPieces == 3
\* a params object has at most MaxParams own properties
MaxParams == 2

(***************************************************************************)
(* JavaScript values.                                                      *)
(***************************************************************************)
Str(s) == [t |-> "string", s |-> s]
Num(n) == [t |-> "number", n |-> n]
Bool(b) == [t |-> "boolean", b |-> b]
Undefined == [t |-> "undefined"]
Null == [t |-> "null"]
\* objects carry their identity (ref); entries and items are in property order
Obj(ref, entries) == [t |-> "Object", ref |-> ref, entries |-> entries]
Arr(ref, items) == [t |-> "Array", ref |-> ref, items |-> items]
FormData(ref, entries) == [t |-> "FormData", ref |-> ref, entries |-> entries]
URLSearchParams(ref, entries) == [t |-> "URLSearchParams", ref |-> ref, entries |-> entries]
Blob(ref, parts, type) == [t |-> "Blob", ref |-> ref, parts |-> parts, type |-> type]
File(ref, parts, name, type) ==
  [t |-> "File", ref |-> ref, parts |-> parts, name |-> name, type |-> type]
ArrayBuffer(ref, byteLength) == [t |-> "ArrayBuffer", ref |-> ref, byteLength |-> byteLength]
ReadableStream(ref) == [t |-> "ReadableStream", ref |-> ref]

\* typeof v
TypeOf(v) ==
  CASE v.t = "string" -> "string"
    [] v.t = "number" -> "number"
    [] v.t = "boolean" -> "boolean"
    [] v.t = "undefined" -> "undefined"
    [] OTHER -> "object"

\* v instanceof class; a File is a Blob
InstanceOf(v, class) == v.t = class \/ (class = "Blob" /\ v.t = "File")

IsArray(v) == v.t = "Array"

IsNullish(v) == v.t \in {"null", "undefined"}

\* outcome of a call: a returned value or a thrown Error, whose message is
\* the sequence of the parts of its template literal
Return(v) == [kind |-> "return", val |-> v]
Throw(msg) == [kind |-> "throw", message |-> msg]

(***************************************************************************)
(* String primitives of the host language.                                 *)
(***************************************************************************)
CharAt(s, i) == SubSeq(s, i, i)

StartsWith(s, p) == Len(p) <= Len(s) /\ SubSeq(s, 1, Len(p)) = p

Includes(s, p) == \E i \in 1..(Len(s) - Len(p) + 1) : SubSeq(s, i, i + Len(p) - 1) = p

\* str.split(sep) for a one-character separator, from position i on, cur being
\* the piece read so far
RECURSIVE Split(_, _, _, _)
Split(str, sep, i, cur) ==
  IF i > Len(str) THEN <<cur>>
  ELSE IF CharAt(str, i) = sep THEN <<cur>> \o Split(str, sep, i + 1, "")
       ELSE Split(str, sep, i + 1, cur \o CharAt(str, i))

Digit(d) == CharAt("0123456789", d + 1)

RECURSIVE NatToString(_)
NatToString(n) == IF n < 10 THEN Digit(n) ELSE NatToString(n \div 10) \o Digit(n % 10)

\* entries.map(([k, v]) => k + "=" + v).join("&"): the serialization of an
\* encoded-parameter-map whose names and values need no percent-encoding
RECURSIVE SerializeParams(_, _)
SerializeParams(entries, k) ==
  IF k > Len(entries) THEN ""
  ELSE (IF k > 1 THEN "&" ELSE "") \o entries[k][1] \o "=" \o entries[k][2].s
         \o SerializeParams(entries, k + 1)

\* String(value)
RECURSIVE StringOf(_)
RECURSIVE JoinItems(_, _)
StringOf(v) ==
  CASE v.t = "string" -> v.s
    [] v.t = "number" -> NatToString(v.n)
    [] v.t = "boolean" -> IF v.b THEN "true" ELSE "false"
    [] v.t = "null" -> "null"
    [] v.t = "undefined" -> "undefined"
    [] v.t = "Array" -> JoinItems(v.items, 1)
    [] v.t = "URLSearchParams" -> SerializeParams(v.entries, 1)
    [] OTHER -> "[object " \o v.t \o "]"

\* Array.prototype.join(","): null and undefined items are empty
JoinItems(items, k) ==
  IF k > Len(items) THEN ""
  ELSE (IF k > 1 THEN "," ELSE "")
         \o (IF IsNullish(items[k]) THEN "" ELSE StringOf(items[k]))
         \o JoinItems(items, k + 1)

\* QuoteJSONString: the string in double quotes, quote and backslash escaped
RECURSIVE EscapeJSON(_)
EscapeJSON(s) ==
  IF s = "" THEN ""
  ELSE (IF CharAt(s, 1) \in {"\"", "\\"} THEN "\\" ELSE "") \o CharAt(s, 1) \o EscapeJSON(Tail(s))

\* JSON.stringify(value) for a value that is not undefined: the own
\* enumerable properties of an object, undefined ones skipped; an array's
\* undefined items as null; the host containers have no such properties
RECURSIVE JSONStringify(_)
RECURSIVE JSONProperties(_, _, _)
RECURSIVE JSONItems(_, _)
JSONStringify(v) ==
  CASE v.t = "string" -> "\"" \o EscapeJSON(v.s) \o "\""
    [] v.t = "number" -> NatToString(v.n)
    [] v.t = "boolean" -> IF v.b THEN "true" ELSE "false"
    [] v.t = "null" -> "null"
    [] v.t = "Object" -> "{" \o JSONProperties(v.entries, 1, TRUE) \o "}"
    [] v.t = "Array" -> "[" \o JSONItems(v.items, 1) \o "]"
    [] OTHER -> "{}"

JSONProperties(entries, k, first) ==
  IF k > Len(entries) THEN ""
  ELSE IF entries[k][2].t = "undefined" THEN JSONProperties(entries, k + 1, first)
       ELSE (IF first THEN "" ELSE ",")
              \o "\"" \o EscapeJSON(entries[k][1]) \o "\":" \o JSONStringify(entries[k][2])
              \o JSONProperties(entries, k + 1, FALSE)

JSONItems(items, k) ==
  IF k > Len(items) THEN ""
  ELSE (IF k > 1 THEN "," ELSE "")
         \o (IF items[k].t = "undefined" THEN "null" ELSE JSONStringify(items[k]))
         \o JSONItems(items, k + 1)

\* GetSubstitution of String.prototype.replace for a pattern without capture
\* groups: $$ is a dollar, $& the match, $` the text before the match, $' the
\* text after it; any other $ is literal.
RECURSIVE GetSubstitution(_, _, _, _, _)
GetSubstitution(matched, str, position, replacement, j) ==
  IF j > Len(replacement) THEN ""
  ELSE IF CharAt(replacement, j) = "$" /\ j < Len(replacement)
       THEN LET c == CharAt(replacement, j + 1) IN
            CASE c = "$" -> "$" \o GetSubstitution(matched, str, position, replacement, j + 2)
              [] c = "&" -> matched \o GetSubstitution(matched, str, position, replacement, j + 2)
              [] c = "`" -> SubSeq(str, 1, position - 1)
                              \o GetSubstitution(matched, str, position, replacement, j + 2)
              [] c = "'" -> SubSeq(str, position + Len(matched), Len(str))
                              \o GetSubstitution(matched, str, position, replacement, j + 2)
              [] OTHER -> "$" \o GetSubstitution(matched, str, position, replacement, j + 1)
       ELSE CharAt(replacement, j) \o GetSubstitution(matched, str, position, replacement, j + 1)

\* variant: the lookahead is dropped, the literal matches whatever follows
MatchesAt_AnyFollower(str, pat, lookahead, i) ==
  /\ i + Len(pat) - 1 <= Len(str)
  /\ SubSeq(str, i, i + Len(pat) - 1) = pat

\* the literal pat matches str at position i; with lookahead, only when the
\* match is followed by "/" or by the end of the string: (?=/|$)
MatchesAt(str, pat, lookahead, i) ==
  /\ i + Len(pat) - 1 <= Len(str)
  /\ SubSeq(str, i, i + Len(pat) - 1) = pat
  /\ lookahead => \/ i + Len(pat) > Len(str)
                  \/ CharAt(str, i + Len(pat)) = "/"

\* str.replace(new RegExp(pat, 'g'), replacement), pat a literal, scanning from i
RECURSIVE ReplaceAll(_, _, _, _, _)
ReplaceAll(str, pat, lookahead, replacement, i) ==
  IF i > Len(str) THEN ""
  ELSE IF MatchesAt(str, pat, lookahead, i)
       THEN GetSubstitution(pat, str, i, replacement, 1)
              \o ReplaceAll(str, pat, lookahead, replacement, i + Len(pat))
       ELSE CharAt(str, i) \o ReplaceAll(str, pat, lookahead, replacement, i + 1)

(***************************************************************************)
(* Path template resolution (makeApiConfig: makeFullPath, makeOpenAPIPath). *)
(***************************************************************************)
\* one step of the forEach of makeFullPath: both notations of one key
ReplaceParam(path, key, value) ==
  LET afterExpress == ReplaceAll(path, ":" \o key, TRUE, StringOf(value), 1)
  IN  ReplaceAll(afterExpress, "{" \o key \o "}", FALSE, StringOf(value), 1)

\* params is the sequence Object.entries(params) of <<key, value>> pairs
RECURSIVE ResolveEntries(_, _, _)
ResolveEntries(path, params, k) ==
  IF k > Len(params) THEN path
  ELSE ResolveEntries(ReplaceParam(path, params[k][1], params[k][2]), params, k + 1)

makeFullPath(pathShape, params) == ResolveEntries(pathShape, params, 1)

IdentStart ==
  { CharAt("abcdefghijklmnopqrstuvwxyzABCDEFGHIJKLMNOPQRSTUVWXYZ_", i) : i \in 1..53 }

IdentChar == IdentStart \cup { Digit(d) : d \in 0..9 }

\* end of the longest run of identifier characters of str that starts at i
RECURSIVE IdentEnd(_, _)
IdentEnd(str, i) ==
  IF i + 1 <= Len(str) /\ CharAt(str, i + 1) \in IdentChar THEN IdentEnd(str, i + 1) ELSE i

\* str.replace(/:([a-zA-Z_][a-zA-Z0-9_]*)/g, '{$1}') scanning from i
RECURSIVE ColonToBrace(_, _)
ColonToBrace(str, i) ==
  IF i > Len(str) THEN ""
  ELSE IF CharAt(str, i) = ":" /\ i < Len(str) /\ CharAt(str, i + 1) \in IdentStart
       THEN LET e == IdentEnd(str, i + 1) IN
            "{" \o SubSeq(str, i + 1, e) \o "}" \o ColonToBrace(str, e + 1)
       ELSE CharAt(str, i) \o ColonToBrace(str, i + 1)

\* variant: /:?([a-zA-Z_][a-zA-Z0-9_]*)/g, the colon being optional
RECURSIVE IdentToBrace(_, _)
IdentToBrace(str, i) ==
  IF i > Len(str) THEN ""
  ELSE IF CharAt(str, i) = ":" /\ i < Len(str) /\ CharAt(str, i + 1) \in IdentStart
       THEN LET e == IdentEnd(str, i + 1) IN
            "{" \o SubSeq(str, i + 1, e) \o "}" \o IdentToBrace(str, e + 1)
       ELSE IF CharAt(str, i) \in IdentStart
            THEN LET e == IdentEnd(str, i) IN
                 "{" \o SubSeq(str, i, e) \o "}" \o IdentToBrace(str, e + 1)
            ELSE CharAt(str, i) \o IdentToBrace(str, i + 1)

makeOpenAPIPath_ColonOptional(pathShape) == IdentToBrace(pathShape, 1)

makeOpenAPIPath(pathShape) == ColonToBrace(pathShape, 1)

(***************************************************************************)
(* Inputs of the path operations.                                          *)
(***************************************************************************)
\* pieces a template is concatenated from; the first piece starts with "/"
FirstPieces == {"/users", "/:id", "/{id}", "/:b", "/{b}"}

Pieces == FirstPieces \cup {":id", "x", ":", ".json"}

RECURSIVE Concat(_, _)
Concat(pieces, k) == IF k > Len(pieces) THEN "" ELSE pieces[k] \o Concat(pieces, k + 1)

PieceSeqs ==
  UNION { { p \in [1..n -> Pieces] : p[1] \in FirstPieces } : n \in 1..MaxPieces }

PathShapes == { Concat(p, 1) : p \in PieceSeqs }

ParamKeys == {"id", "b"}

ParamValues == {Num(7), Str("9"), Str(":b"), Str("{b}"), Str("$&")}

\* Object.entries of the params objects: distinct keys, in insertion order
ParamObjects ==
  UNION { { p \in [1..n -> ParamKeys \X ParamValues] :
              \A i, j \in 1..n : i # j => p[i][1] # p[j][1] } : n \in 0..MaxParams }

\* a descriptor as a caller writes it; an omitted optional field reads as
\* undefined, the schemas are opaque
Descriptor(pathShape, responseContentType, requestContentType) ==
  [ method |-> "GET",
    pathShape |-> pathShape,
    tags |-> <<"#users">>,
    auth |-> "YES",
    disable |-> "NO",
    summary |-> "",
    description |-> "",
    responseContentType |-> responseContentType,
    requestContentType |-> requestContentType,
    request |-> [body |-> "z.any", params |-> "z.object", query |-> "z.object",
                 headers |-> "z.object", cookies |-> "z.object"],
    response |-> [success |-> "z.object", error |-> "z.object"] ]

\* a descriptor of the given path template
Config(pathShape) ==
  Descriptor(pathShape, Str("application/json"), Str("application/json"))

(***************************************************************************)
(* The calls on a configuration's path helpers.                            *)
(***************************************************************************)
Init ==
  /\ entryConfig \in { Config(p) : p \in PathShapes }
  /\ op = "idle"
  /\ args = [none |-> TRUE]
  /\ ret = Return(Undefined)
  /\ invoked = {}

\* the consumer has used the outcome of its call and goes on
Continue ==
  /\ op # "idle"
  /\ op' = "idle"
  /\ args' = [none |-> TRUE]
  /\ ret' = Return(Undefined)
  /\ invoked' = {}
  /\ UNCHANGED entryConfig

\* variant: the resolved path is written back to the descriptor
MakeFullPath_StoresPath(params) ==
  /\ op = "idle"
  /\ op' = "makeFullPath"
  /\ args' = [params |-> params]
  /\ ret' = Return(Str(makeFullPath(entryConfig.pathShape, params)))
  /\ invoked' = {"makeFullPath"}
  /\ entryConfig' =
       [entryConfig EXCEPT !.pathShape = makeFullPath(entryConfig.pathShape, params)]

MakeFullPath(params) ==
  /\ op = "idle"
  /\ op' = "makeFullPath"
  /\ args' = [params |-> params]
  /\ ret' = Return(Str(makeFullPath(entryConfig.pathShape, params)))
  /\ invoked' = {"makeFullPath"}
  /\ UNCHANGED entryConfig

MakeOpenAPIPath ==
  /\ op = "idle"
  /\ op' = "makeOpenAPIPath"
  /\ args' = [none |-> TRUE]
  /\ ret' = Return(Str(makeOpenAPIPath(entryConfig.pathShape)))
  /\ invoked' = {"makeOpenAPIPath"}
  /\ UNCHANGED entryConfig

NextPath ==
  \/ \E params \in ParamObjects : MakeFullPath(params)
  \/ MakeOpenAPIPath
  \/ Continue

SpecPath == Init /\ [][NextPath]_vars

(***************************************************************************)
(* Content-type adapter: classification and per-client directives.         *)
(***************************************************************************)
JsonRule(contentType) ==
  \/ contentType = "application/json"
  \/ contentType = "application/ld+json"
  \/ contentType = "application/vnd.api+json"
  \/ contentType = "application/json-patch+json"
  \/ contentType = "application/merge-patch+json"
  \/ contentType = "application/x-ndjson"
  \/ (Includes(contentType, "application/vnd.github") /\ Includes(contentType, "json"))

BinaryRule(contentType) ==
  \/ contentType = "application/octet-stream"
  \/ contentType = "application/pdf"
  \/ contentType = "application/zip"
  \/ contentType = "application/gzip"
  \/ contentType = "application/msgpack"
  \/ contentType = "application/x-protobuf"
  \/ Includes(contentType, "application/vnd.ms-")
  \/ Includes(contentType, "application/vnd.openxmlformats-officedocument")
  \/ StartsWith(contentType, "image/")
  \/ StartsWith(contentType, "audio/")
  \/ StartsWith(contentType, "video/")

XmlRule(contentType) ==
  \/ contentType = "application/xml"
  \/ contentType = "text/xml"
  \/ Includes(contentType, "+xml")

FormDataRule(contentType) ==
  \/ contentType = "multipart/form-data"
  \/ contentType = "application/x-www-form-urlencoded"

\* variant: the fallback covers the text/ types only
contentTypeCategory_TextPrefixOnly(contentType) ==
  IF JsonRule(contentType) THEN "json"
  ELSE IF BinaryRule(contentType) THEN "binary"
  ELSE IF XmlRule(contentType) THEN "xml"
  ELSE IF FormDataRule(contentType) THEN "formdata"
  ELSE IF StartsWith(contentType, "text/") THEN "text"
  ELSE "unknown"

\* the first rule that matches decides; text is the fallback
\* variant: the xml rule is tested before the binary rule
contentTypeCategory_XmlBeforeBinary(contentType) ==
  IF JsonRule(contentType) THEN "json"
  ELSE IF XmlRule(contentType) THEN "xml"
  ELSE IF BinaryRule(contentType) THEN "binary"
  ELSE IF FormDataRule(contentType) THEN "formdata"
  ELSE "text"

contentTypeCategory(contentType) ==
  IF JsonRule(contentType) THEN "json"
  ELSE IF BinaryRule(contentType) THEN "binary"
  ELSE IF XmlRule(contentType) THEN "xml"
  ELSE IF FormDataRule(contentType) THEN "formdata"
  ELSE "text"

LowerCase(c) ==
  IF \E i \in 1..26 : CharAt("ABCDEFGHIJKLMNOPQRSTUVWXYZ", i) = c
  THEN CharAt("abcdefghijklmnopqrstuvwxyz",
              CHOOSE i \in 1..26 : CharAt("ABCDEFGHIJKLMNOPQRSTUVWXYZ", i) = c)
  ELSE c

RECURSIVE ToLowerCase(_)
ToLowerCase(s) == IF s = "" THEN "" ELSE LowerCase(CharAt(s, 1)) \o ToLowerCase(Tail(s))

\* the character class [a-zA-Z0-9-]
CharsetChar == (IdentChar \ {"_"}) \cup {"-"}

RECURSIVE CharsetEnd(_, _)
CharsetEnd(str, i) ==
  IF i + 1 <= Len(str) /\ CharAt(str, i + 1) \in CharsetChar THEN CharsetEnd(str, i + 1) ELSE i

\* the positions where /charset=([a-zA-Z0-9-]+)/i matches
CharsetMatches(str) ==
  { i \in 1..Len(str) : /\ i + 8 <= Len(str)
                        /\ ToLowerCase(SubSeq(str, i, i + 7)) = "charset="
                        /\ CharAt(str, i + 8) \in CharsetChar }

\* the value an inherited property of the alias table evaluates to
ObjectConstructor == "function Object() { [native code] }"

\* encodingMap[charset] || 'utf-8'; the table is an object literal, so the
\* name "constructor" finds the inherited Object function
encodingMap(charset) ==
  CASE charset = "utf-8" -> "utf-8"
    [] charset = "utf8" -> "utf8"
    [] charset = "ascii" -> "ascii"
    [] charset = "latin1" -> "latin1"
    [] charset = "iso-8859-1" -> "latin1"
    [] charset = "binary" -> "binary"
    [] charset = "base64" -> "base64"
    [] charset = "hex" -> "hex"
    [] charset = "constructor" -> ObjectConstructor
    [] OTHER -> "utf-8"

extractCharset(contentType) ==
  IF Includes(contentType, "charset=") /\ CharsetMatches(contentType) # {}
  THEN LET i == CHOOSE m \in CharsetMatches(contentType) :
                   \A n \in CharsetMatches(contentType) : m <= n
       IN  encodingMap(ToLowerCase(SubSeq(contentType, i + 8, CharsetEnd(contentType, i + 8))))
  ELSE "utf-8"

\* variant: the encoding is attached to document directives as well
toAxiosResponseType_DocumentEncoding(contentType) ==
  LET category == contentTypeCategory(contentType) IN
  CASE category = "json" -> [responseType |-> "json"]
    [] category = "binary" -> [responseType |-> "blob"]
    [] category = "xml" -> [responseType |-> "document",
                            responseEncoding |-> extractCharset(contentType)]
    [] category = "formdata" -> [responseType |-> "blob"]
    [] OTHER -> [responseType |-> "text", responseEncoding |-> extractCharset(contentType)]

toAxiosResponseType(contentType) ==
  LET category == contentTypeCategory(contentType) IN
  CASE category = "json" -> [responseType |-> "json"]
    [] category = "binary" -> [responseType |-> "blob"]
    [] category = "xml" -> [responseType |-> "document"]
    [] category = "formdata" -> [responseType |-> "blob"]
    [] OTHER -> [responseType |-> "text", responseEncoding |-> extractCharset(contentType)]

toUniAppResponseType(contentType) ==
  LET category == contentTypeCategory(contentType) IN
  CASE category = "json" -> [responseType |-> "text", dataType |-> "json"]
    [] category = "binary" -> [responseType |-> "arraybuffer"]
    [] OTHER -> [responseType |-> "text", dataType |-> "other"]

toXHRResponseType(contentType) ==
  LET category == contentTypeCategory(contentType) IN
  CASE category = "json" -> [responseType |-> "json"]
    [] category = "binary" -> [responseType |-> "blob"]
    [] category = "xml" -> [responseType |-> "document"]
    [] OTHER -> [responseType |-> "text"]

toTaroResponseType(contentType) ==
  LET category == contentTypeCategory(contentType) IN
  CASE category = "json" -> [responseType |-> "text", dataType |-> "json"]
    [] category = "binary" -> [responseType |-> "arraybuffer", dataType |-> "arraybuffer"]
    [] OTHER -> [responseType |-> "text", dataType |-> "text"]

\* variant: the formdata case is missing
toFetchResponseMethod_NoFormData(contentType) ==
  LET category == contentTypeCategory(contentType) IN
  CASE category = "json" -> [responseMethod |-> "json"]
    [] category = "binary" -> [responseMethod |-> "blob"]
    [] OTHER -> [responseMethod |-> "text"]

toFetchResponseMethod(contentType) ==
  LET category == contentTypeCategory(contentType) IN
  CASE category = "json" -> [responseMethod |-> "json"]
    [] category = "binary" -> [responseMethod |-> "blob"]
    [] category = "formdata" -> [responseMethod |-> "formData"]
    [] OTHER -> [responseMethod |-> "text"]

\* the functions a call of toAxiosResponseType enters
toAxiosResponseTypeCalls(contentType) ==
  {"toAxiosResponseType", "contentTypeCategory"}
    \cup (IF contentTypeCategory(contentType) = "text" THEN {"extractCharset"} ELSE {})

\* the functions a call of convertResponseType enters
convertResponseTypeCalls(contentType, adapter) ==
  {"convertResponseType"} \cup
  CASE adapter \in {"axios", "alova-axios"} -> toAxiosResponseTypeCalls(contentType)
    [] adapter = "alova-uniapp" -> {"toUniAppResponseType", "contentTypeCategory"}
    [] adapter = "alova-xhr" -> {"toXHRResponseType", "contentTypeCategory"}
    [] adapter = "alova-taro" -> {"toTaroResponseType", "contentTypeCategory"}
    [] adapter = "fetch" -> {"toFetchResponseMethod", "contentTypeCategory"}
    [] OTHER -> {}

\* variant: an unknown client kind is served as fetch
convertResponseType_DefaultFetch(contentType, adapter) ==
  CASE adapter \in {"axios", "alova-axios"} -> Return(toAxiosResponseType(contentType))
    [] adapter = "alova-uniapp" -> Return(toUniAppResponseType(contentType))
    [] adapter = "alova-xhr" -> Return(toXHRResponseType(contentType))
    [] adapter = "alova-taro" -> Return(toTaroResponseType(contentType))
    [] OTHER -> Return(toFetchResponseMethod(contentType))

convertResponseType(contentType, adapter) ==
  CASE adapter \in {"axios", "alova-axios"} -> Return(toAxiosResponseType(contentType))
    [] adapter = "alova-uniapp" -> Return(toUniAppResponseType(contentType))
    [] adapter = "alova-xhr" -> Return(toXHRResponseType(contentType))
    [] adapter = "alova-taro" -> Return(toTaroResponseType(contentType))
    [] adapter = "fetch" -> Return(toFetchResponseMethod(contentType))
    [] OTHER -> Throw(<<"Unsupported adapter: ", adapter>>)

(***************************************************************************)
(* Inputs of the adapter operations.                                       *)
(***************************************************************************)
\* responseContentTypeSchema
ResponseContentTypes ==
  { "application/json", "application/xml", "application/octet-stream", "application/pdf",
    "application/zip", "application/gzip", "application/x-www-form-urlencoded",
    "multipart/form-data", "application/json-patch+json", "application/merge-patch+json",
    "application/vnd.api+json", "application/ld+json", "application/x-ndjson",
    "application/x-protobuf", "application/msgpack",
    "application/vnd.ms-excel",
    "application/vnd.openxmlformats-officedocument.spreadsheetml.sheet",
    "application/vnd.ms-powerpoint",
    "application/vnd.openxmlformats-officedocument.presentationml.presentation",
    "application/msword",
    "application/vnd.openxmlformats-officedocument.wordprocessingml.document",
    "text/plain", "text/html", "text/css", "text/javascript", "text/csv", "text/xml",
    "text/markdown", "text/yaml",
    "image/png", "image/jpeg", "image/gif", "image/webp", "image/svg+xml", "image/bmp",
    "image/tiff", "image/x-icon", "image/avif", "image/vnd.djvu",
    "audio/mpeg", "audio/ogg", "audio/wav", "audio/webm", "audio/aac", "audio/flac",
    "video/mp4", "video/mpeg", "video/ogg", "video/webm", "video/quicktime",
    "video/x-msvideo",
    "application/vnd.github+json", "application/vnd.github.v3+json",
    "application/vnd.github.v3.diff", "application/vnd.github.v3.patch",
    "application/vnd.openstreetmap.data+xml" }

\* strings outside the catalog
UnrecognizedTypes ==
  { "", "foo", "application/unknown", "APPLICATION/JSON", "application/atom+xml",
    "application/json; charset=utf-8", "text/plain; charset=ISO-8859-1",
    "text/html; charset=", "text/csv; Charset=hex", "text/plain; charset=constructor",
    "x-image/png", "application/vnd.github.v3.raw",
    "application/vnd.ms-office.activeX+xml",
    "application/vnd.openxmlformats-officedocument.theme+xml" }

ContentTypeStrings == ResponseContentTypes \cup UnrecognizedTypes

AdapterTypes == {"axios", "alova-axios", "alova-uniapp", "alova-xhr", "alova-taro", "fetch"}

\* client kinds a caller may pass; the added ones are not supported
AdapterArguments == AdapterTypes \cup {"jquery", "", "Axios", "alova"}

(***************************************************************************)
(* The calls on the adapter module.                                        *)
(***************************************************************************)
InitAdapters ==
  /\ entryConfig = Config("/users/:id")
  /\ op = "idle"
  /\ args = [none |-> TRUE]
  /\ ret = Return(Undefined)
  /\ invoked = {}

ContentTypeCategory(contentType) ==
  /\ op = "idle"
  /\ op' = "contentTypeCategory"
  /\ args' = [contentType |-> contentType]
  /\ ret' = Return(Str(contentTypeCategory(contentType)))
  /\ invoked' = {"contentTypeCategory"}
  /\ UNCHANGED entryConfig

ToAxiosResponseType(contentType) ==
  /\ op = "idle"
  /\ op' = "toAxiosResponseType"
  /\ args' = [contentType |-> contentType]
  /\ ret' = Return(toAxiosResponseType(contentType))
  /\ invoked' = toAxiosResponseTypeCalls(contentType)
  /\ UNCHANGED entryConfig

ToUniAppResponseType(contentType) ==
  /\ op = "idle"
  /\ op' = "toUniAppResponseType"
  /\ args' = [contentType |-> contentType]
  /\ ret' = Return(toUniAppResponseType(contentType))
  /\ invoked' = {"toUniAppResponseType", "contentTypeCategory"}
  /\ UNCHANGED entryConfig

ToXHRResponseType(contentType) ==
  /\ op = "idle"
  /\ op' = "toXHRResponseType"
  /\ args' = [contentType |-> contentType]
  /\ ret' = Return(toXHRResponseType(contentType))
  /\ invoked' = {"toXHRResponseType", "contentTypeCategory"}
  /\ UNCHANGED entryConfig

ToTaroResponseType(contentType) ==
  /\ op = "idle"
  /\ op' = "toTaroResponseType"
  /\ args' = [contentType |-> contentType]
  /\ ret' = Return(toTaroResponseType(contentType))
  /\ invoked' = {"toTaroResponseType", "contentTypeCategory"}
  /\ UNCHANGED entryConfig

ToFetchResponseMethod(contentType) ==
  /\ op = "idle"
  /\ op' = "toFetchResponseMethod"
  /\ args' = [contentType |-> contentType]
  /\ ret' = Return(toFetchResponseMethod(contentType))
  /\ invoked' = {"toFetchResponseMethod", "contentTypeCategory"}
  /\ UNCHANGED entryConfig

ConvertResponseType(contentType, adapter) ==
  /\ op = "idle"
  /\ op' = "convertResponseType"
  /\ args' = [contentType |-> contentType, adapter |-> adapter]
  /\ ret' = convertResponseType(contentType, adapter)
  /\ invoked' = convertResponseTypeCalls(contentType, adapter)
  /\ UNCHANGED entryConfig

NextAdapters ==
  \/ \E contentType \in ContentTypeStrings : ContentTypeCategory(contentType)
  \/ \E contentType \in ContentTypeStrings : ToAxiosResponseType(contentType)
  \/ \E contentType \in ContentTypeStrings : ToUniAppResponseType(contentType)
  \/ \E contentType \in ContentTypeStrings : ToXHRResponseType(contentType)
  \/ \E contentType \in ContentTypeStrings : ToTaroResponseType(contentType)
  \/ \E contentType \in ContentTypeStrings : ToFetchResponseMethod(contentType)
  \/ \E contentType \in ContentTypeStrings, adapter \in AdapterArguments :
        ConvertResponseType(contentType, adapter)
  \/ Continue

SpecAdapters == InitAdapters /\ [][NextAdapters]_vars

(***************************************************************************)
(* Request body coercion: convertRequestBody, needsConversion,             *)
(* safeConvertRequestBody.  The host provides FormData, Blob, File,        *)
(* ArrayBuffer, URLSearchParams and ReadableStream.                        *)
(***************************************************************************)
JsonTypes ==
  { "application/json", "application/ld+json", "application/vnd.api+json",
    "application/json-patch+json", "application/merge-patch+json",
    "application/vnd.github+json" }

BinaryTypes ==
  { "application/octet-stream", "application/pdf", "application/zip", "application/gzip" }

TextTypes == { "text/plain", "text/html", "text/xml", "text/csv", "text/markdown", "text/yaml" }

PreEncodedTypes == { "application/msgpack", "application/x-protobuf" }

MediaTypes ==
  { "image/png", "image/jpeg", "image/gif", "image/webp", "image/svg+xml",
    "audio/mpeg", "audio/wav", "audio/ogg", "video/mp4", "video/mpeg", "video/webm" }

\* the identity of an object allocated by the call
NewRef == "convertRequestBody"

\* Object.entries(data): the host containers have no own enumerable properties
ObjectEntries(data) == IF data.t = "Object" THEN data.entries ELSE <<>>

\* the entries appended to the URLSearchParams built from an object
RECURSIVE AppendedParams(_, _)
AppendedParams(entries, k) ==
  IF k > Len(entries) THEN <<>>
  ELSE (IF IsNullish(entries[k][2]) THEN <<>>
        ELSE << <<entries[k][1], Str(StringOf(entries[k][2]))>> >>)
         \o AppendedParams(entries, k + 1)

\* "+" decoded to a space (the inputs of the model hold no percent escapes)
RECURSIVE DecodePlus(_)
DecodePlus(s) ==
  IF s = "" THEN ""
  ELSE (IF CharAt(s, 1) = "+" THEN " " ELSE CharAt(s, 1)) \o DecodePlus(Tail(s))

\* name and value of one "&"-separated piece, split at its first "="
ParsedPair(piece) ==
  IF Includes(piece, "=")
  THEN LET e == CHOOSE i \in 1..Len(piece) :
                   CharAt(piece, i) = "=" /\ \A j \in 1..(i - 1) : CharAt(piece, j) # "="
       IN  <<DecodePlus(SubSeq(piece, 1, e - 1)), Str(DecodePlus(SubSeq(piece, e + 1, Len(piece))))>>
  ELSE <<DecodePlus(piece), Str("")>>

RECURSIVE ParsedPairs(_, _)
ParsedPairs(pieces, k) ==
  IF k > Len(pieces) THEN <<>>
  ELSE (IF pieces[k] = "" THEN <<>> ELSE <<ParsedPair(pieces[k])>>) \o ParsedPairs(pieces, k + 1)

\* new URLSearchParams(init) for a string: a leading "?" is dropped
ParseQueryString(init) ==
  ParsedPairs(Split(IF StartsWith(init, "?") THEN Tail(init) ELSE init, "&", 1, ""), 1)

\* the entries appended for the items of an array value: name key[index]
RECURSIVE AppendedItems(_, _, _)
AppendedItems(key, items, k) ==
  IF k > Len(items) THEN <<>>
  ELSE << <<key \o "[" \o NatToString(k - 1) \o "]",
            IF InstanceOf(items[k], "File") \/ InstanceOf(items[k], "Blob")
            THEN items[k] ELSE Str(StringOf(items[k]))>> >>
         \o AppendedItems(key, items, k + 1)

\* the entries appended to the FormData built from an object
RECURSIVE AppendedFields(_, _)
AppendedFields(entries, k) ==
  IF k > Len(entries) THEN <<>>
  ELSE LET key == entries[k][1]
           value == entries[k][2]
       IN  (IF IsNullish(value) THEN <<>>
            ELSE IF InstanceOf(value, "File") \/ InstanceOf(value, "Blob")
                 THEN << <<key, value>> >>
            ELSE IF IsArray(value) THEN AppendedItems(key, value.items, 1)
            ELSE IF TypeOf(value) = "object" THEN << <<key, Str(JSONStringify(value))>> >>
            ELSE << <<key, Str(StringOf(value))>> >>)
             \o AppendedFields(entries, k + 1)

\* 'query' in data
HasProperty(data, name) ==
  data.t = "Object" /\ \E k \in 1..Len(data.entries) : data.entries[k][1] = name

XmlMessage ==
  <<"XML content type requires data to be an XML string. Cannot auto-convert objects to XML.">>

PreEncodedMessage(contentType) ==
  <<contentType,
    " requires pre-encoded data as ArrayBuffer or Blob. Use appropriate encoding library.">>

MediaMessage(contentType) ==
  <<contentType, " requires data to be a File, Blob, or ArrayBuffer">>

\* case 'application/json' and the other JSON content types
jsonCase(data) ==
  IF TypeOf(data) = "string" THEN Return(data)
  ELSE Return(Str(JSONStringify(data)))

\* variant: null and undefined values are appended like the others
RECURSIVE AppendedParams_KeepNullish(_, _)
AppendedParams_KeepNullish(entries, k) ==
  IF k > Len(entries) THEN <<>>
  ELSE << <<entries[k][1], Str(StringOf(entries[k][2]))>> >>
         \o AppendedParams_KeepNullish(entries, k + 1)

formUrlEncodedCase_KeepNullish(data) ==
  IF InstanceOf(data, "URLSearchParams") THEN Return(data)
  ELSE IF TypeOf(data) = "object" /\ ~IsArray(data)
       THEN Return(URLSearchParams(NewRef, AppendedParams_KeepNullish(ObjectEntries(data), 1)))
  ELSE IF TypeOf(data) = "string"
       THEN Return(URLSearchParams(NewRef, ParseQueryString(data.s)))
  ELSE Return(data)

\* case 'application/x-www-form-urlencoded'
formUrlEncodedCase(data) ==
  IF InstanceOf(data, "URLSearchParams") THEN Return(data)
  ELSE IF TypeOf(data) = "object" /\ ~IsArray(data)
       THEN Return(URLSearchParams(NewRef, AppendedParams(ObjectEntries(data), 1)))
  ELSE IF TypeOf(data) = "string"
       THEN Return(URLSearchParams(NewRef, ParseQueryString(data.s)))
  ELSE Return(data)

\* variant: the items of an array value are appended under the bare key
RECURSIVE AppendedItems_Unindexed(_, _, _)
AppendedItems_Unindexed(key, items, k) ==
  IF k > Len(items) THEN <<>>
  ELSE << <<key,
            IF InstanceOf(items[k], "File") \/ InstanceOf(items[k], "Blob")
            THEN items[k] ELSE Str(StringOf(items[k]))>> >>
         \o AppendedItems_Unindexed(key, items, k + 1)

RECURSIVE AppendedFields_Unindexed(_, _)
AppendedFields_Unindexed(entries, k) ==
  IF k > Len(entries) THEN <<>>
  ELSE LET key == entries[k][1]
           value == entries[k][2]
       IN  (IF IsNullish(value) THEN <<>>
            ELSE IF InstanceOf(value, "File") \/ InstanceOf(value, "Blob")
                 THEN << <<key, value>> >>
            ELSE IF IsArray(value) THEN AppendedItems_Unindexed(key, value.items, 1)
            ELSE IF TypeOf(value) = "object" THEN << <<key, Str(JSONStringify(value))>> >>
            ELSE << <<key, Str(StringOf(value))>> >>)
             \o AppendedFields_Unindexed(entries, k + 1)

multipartCase_UnindexedItems(data) ==
  IF InstanceOf(data, "FormData") THEN Return(data)
  ELSE IF TypeOf(data) = "object" /\ ~IsArray(data)
       THEN Return(FormData(NewRef, AppendedFields_Unindexed(ObjectEntries(data), 1)))
  ELSE Return(data)

\* case 'multipart/form-data'
multipartCase(data) ==
  IF InstanceOf(data, "FormData") THEN Return(data)
  ELSE IF TypeOf(data) = "object" /\ ~IsArray(data)
       THEN Return(FormData(NewRef, AppendedFields(ObjectEntries(data), 1)))
  ELSE Return(data)

\* variant: the Blob is built without a type
binaryCase_Untagged(data, contentType) ==
  IF \/ InstanceOf(data, "Blob") \/ InstanceOf(data, "ArrayBuffer")
     \/ InstanceOf(data, "ReadableStream")
  THEN Return(data)
  ELSE IF TypeOf(data) = "string" THEN Return(Blob(NewRef, <<data>>, ""))
  ELSE IF TypeOf(data) = "object"
       THEN Return(Blob(NewRef, <<Str(JSONStringify(data))>>, ""))
  ELSE Return(data)

\* case 'application/octet-stream', pdf, zip, gzip
binaryCase(data, contentType) ==
  IF \/ InstanceOf(data, "Blob") \/ InstanceOf(data, "ArrayBuffer")
     \/ InstanceOf(data, "ReadableStream")
  THEN Return(data)
  ELSE IF TypeOf(data) = "string" THEN Return(Blob(NewRef, <<data>>, contentType))
  ELSE IF TypeOf(data) = "object"
       THEN Return(Blob(NewRef, <<Str(JSONStringify(data))>>, contentType))
  ELSE Return(data)

\* variant: an object is string-coerced like the other non-strings
textCase_StringCoercion(data) ==
  IF TypeOf(data) = "string" THEN Return(data)
  ELSE Return(Str(StringOf(data)))

\* case 'text/plain' and the other text content types
textCase(data) ==
  IF TypeOf(data) = "string" THEN Return(data)
  ELSE IF TypeOf(data) = "object" THEN Return(Str(JSONStringify(data)))
  ELSE Return(Str(StringOf(data)))

\* variant: an object is serialized as for the text content types
xmlCase_Serialize(data) ==
  IF TypeOf(data) = "string" THEN Return(data)
  ELSE IF TypeOf(data) = "object" THEN Return(Str(JSONStringify(data)))
  ELSE Return(Str(StringOf(data)))

\* case 'application/xml'
xmlCase(data) ==
  IF TypeOf(data) = "string" THEN Return(data)
  ELSE IF TypeOf(data) = "object" THEN Throw(XmlMessage)
  ELSE Return(Str(StringOf(data)))

\* case 'application/msgpack', 'application/x-protobuf'
preEncodedCase(data, contentType) ==
  IF InstanceOf(data, "ArrayBuffer") \/ InstanceOf(data, "Blob") THEN Return(data)
  ELSE Throw(PreEncodedMessage(contentType))

\* case 'image/png' and the other image, audio and video content types
mediaCase(data, contentType) ==
  IF InstanceOf(data, "Blob") \/ InstanceOf(data, "File") THEN Return(data)
  ELSE IF InstanceOf(data, "ArrayBuffer") THEN Return(Blob(NewRef, <<data>>, contentType))
  ELSE Throw(MediaMessage(contentType))

\* case 'application/graphql'
graphqlCase(data) ==
  IF TypeOf(data) = "string" THEN Return(data)
  ELSE IF TypeOf(data) = "object" /\ HasProperty(data, "query")
       THEN Return(Str(JSONStringify(data)))
  ELSE Return(Str(StringOf(data)))

convertRequestBody(data, contentType) ==
  IF IsNullish(data) THEN Return(data)
  ELSE CASE contentType \in JsonTypes -> jsonCase(data)
         [] contentType = "application/x-www-form-urlencoded" -> formUrlEncodedCase(data)
         [] contentType = "multipart/form-data" -> multipartCase(data)
         [] contentType \in BinaryTypes -> binaryCase(data, contentType)
         [] contentType \in TextTypes -> textCase(data)
         [] contentType = "application/xml" -> xmlCase(data)
         [] contentType \in PreEncodedTypes -> preEncodedCase(data, contentType)
         [] contentType \in MediaTypes -> mediaCase(data, contentType)
         [] contentType = "application/graphql" -> graphqlCase(data)
         [] OTHER -> Return(data)

\* variant: a stream does not satisfy the binary types
needsConversion_StreamConverted(data, contentType) ==
  IF IsNullish(data) THEN FALSE
  ELSE CASE contentType \in JsonTypes \cup {"application/graphql"} -> TypeOf(data) # "string"
         [] contentType = "application/x-www-form-urlencoded" ->
              ~InstanceOf(data, "URLSearchParams")
         [] contentType = "multipart/form-data" -> ~InstanceOf(data, "FormData")
         [] contentType \in BinaryTypes ->
              ~(InstanceOf(data, "Blob") \/ InstanceOf(data, "ArrayBuffer"))
         [] contentType \in TextTypes \cup {"application/xml"} -> TypeOf(data) # "string"
         [] contentType \in MediaTypes ->
              ~( \/ InstanceOf(data, "File") \/ InstanceOf(data, "Blob")
                 \/ InstanceOf(data, "ArrayBuffer") )
         [] OTHER -> FALSE

needsConversion(data, contentType) ==
  IF IsNullish(data) THEN FALSE
  ELSE CASE contentType \in JsonTypes \cup {"application/graphql"} -> TypeOf(data) # "string"
         [] contentType = "application/x-www-form-urlencoded" ->
              ~InstanceOf(data, "URLSearchParams")
         [] contentType = "multipart/form-data" -> ~InstanceOf(data, "FormData")
         [] contentType \in BinaryTypes ->
              ~( \/ InstanceOf(data, "Blob") \/ InstanceOf(data, "ArrayBuffer")
                 \/ InstanceOf(data, "ReadableStream") )
         [] contentType \in TextTypes \cup {"application/xml"} -> TypeOf(data) # "string"
         [] contentType \in MediaTypes ->
              ~( \/ InstanceOf(data, "File") \/ InstanceOf(data, "Blob")
                 \/ InstanceOf(data, "ArrayBuffer") )
         [] OTHER -> FALSE

\* variant: the check is skipped and the payload always converted
safeConvertRequestBody_AlwaysConvert(data, contentType) ==
  convertRequestBody(data, contentType)

safeConvertRequestBody(data, contentType) ==
  IF ~needsConversion(data, contentType) THEN Return(data)
  ELSE convertRequestBody(data, contentType)

\* the functions a call of safeConvertRequestBody enters
safeConvertRequestBodyCalls(data, contentType) ==
  {"safeConvertRequestBody", "needsConversion"}
    \cup (IF ~needsConversion(data, contentType) THEN {} ELSE {"convertRequestBody"})

(***************************************************************************)
(* Inputs of the body operations.                                          *)
(***************************************************************************)
\* requestContentTypeSchema
RequestContentTypes ==
  { "application/json", "application/xml", "application/x-www-form-urlencoded",
    "multipart/form-data", "application/octet-stream", "application/pdf",
    "application/zip", "application/gzip", "application/json-patch+json",
    "application/merge-patch+json", "application/vnd.api+json", "application/ld+json",
    "application/x-protobuf", "application/msgpack", "application/graphql",
    "text/plain", "text/html", "text/xml", "text/csv", "text/markdown", "text/yaml",
    "image/png", "image/jpeg", "image/gif", "image/webp", "image/svg+xml",
    "audio/mpeg", "audio/wav", "audio/ogg", "video/mp4", "video/mpeg", "video/webm",
    "application/vnd.github+json" }

\* content types outside the request catalog
UnrecognizedRequestTypes == { "application/x-ndjson", "text/css", "foo" }

RequestContentTypeStrings == RequestContentTypes \cup UnrecognizedRequestTypes

\* the payloads a caller passes; "caller" objects exist before the call
Payloads ==
  { Null, Undefined,
    Str("{\"name\":\"a\"}"), Str("a=1&b=x+y"), Str("<a/>"),
    Num(42), Bool(TRUE),
    Obj("caller", << <<"name", Str("a")>> >>),
    Obj("caller", << <<"a", Num(1)>>, <<"b", Null>>, <<"c", Undefined>>, <<"d", Str("x")>> >>),
    Obj("caller", << <<"query", Str("{ me }")>> >>),
    Obj("caller", << <<"file", Blob("caller.file", <<Str("data")>>, "image/png")>>,
                     <<"tags", Arr("caller.tags",
                                   <<Str("x"), File("caller.tags.1", <<Str("data")>>, "a.png", "")>>)>>,
                     <<"meta", Obj("caller.meta", << <<"k", Num(1)>> >>)>> >>),
    Arr("caller", <<Num(1), Str("x")>>),
    FormData("caller", << <<"field", Str("v")>> >>),
    URLSearchParams("caller", << <<"a", Str("1")>> >>),
    Blob("caller", <<Str("data")>>, ""),
    File("caller", <<Str("data")>>, "a.png", "image/png"),
    ArrayBuffer("caller", 8),
    ReadableStream("caller") }

(***************************************************************************)
(* The calls on the body coercer.                                          *)
(***************************************************************************)
ConvertRequestBody(data, contentType) ==
  /\ op = "idle"
  /\ op' = "convertRequestBody"
  /\ args' = [data |-> data, contentType |-> contentType]
  /\ ret' = convertRequestBody(data, contentType)
  /\ invoked' = {"convertRequestBody"}
  /\ UNCHANGED entryConfig

NeedsConversion(data, contentType) ==
  /\ op = "idle"
  /\ op' = "needsConversion"
  /\ args' = [data |-> data, contentType |-> contentType]
  /\ ret' = Return(Bool(needsConversion(data, contentType)))
  /\ invoked' = {"needsConversion"}
  /\ UNCHANGED entryConfig

SafeConvertRequestBody(data, contentType) ==
  /\ op = "idle"
  /\ op' = "safeConvertRequestBody"
  /\ args' = [data |-> data, contentType |-> contentType]
  /\ ret' = safeConvertRequestBody(data, contentType)
  /\ invoked' = safeConvertRequestBodyCalls(data, contentType)
  /\ UNCHANGED entryConfig

NextBody ==
  \/ \E data \in Payloads, contentType \in RequestContentTypeStrings :
        ConvertRequestBody(data, contentType)
  \/ \E data \in Payloads, contentType \in RequestContentTypeStrings :
        NeedsConversion(data, contentType)
  \/ \E data \in Payloads, contentType \in RequestContentTypeStrings :
        SafeConvertRequestBody(data, contentType)
  \/ Continue

SpecBody == InitAdapters /\ [][NextBody]_vars

(***************************************************************************)
(* The endpoint configuration: makeApiConfig and the operations bound to   *)
(* the descriptor it was given.                                            *)
(***************************************************************************)
\* the factory takes the path as a string: no leading "/" is required of it
DescriptorPaths == {"/users/:id", "/users/{id}/posts/:b", "users/:id"}

DescriptorResponseTypes ==
  { Str("application/json"), Str("application/pdf"), Str("text/plain"),
    Str("application/xml"), Str("multipart/form-data"), Str("application/unknown"),
    Undefined }

DescriptorRequestTypes == { Str("application/json"), Str("foo"), Undefined }

Descriptors ==
  { Descriptor(p, r, q) :
      p \in DescriptorPaths, r \in DescriptorResponseTypes, q \in DescriptorRequestTypes }

Operations ==
  { "makeFullPath", "makeOpenAPIPath", "makeBody", "makeSuccessResponse",
    "makeErrorResponse", "makeQueries", "makeParams", "makeHeaders", "makeCookies",
    "convertResponseType" }

IdentityHelpers ==
  { "makeBody", "makeSuccessResponse", "makeErrorResponse", "makeQueries", "makeParams",
    "makeHeaders", "makeCookies" }

\* the object the factory returns: the descriptor's fields spread, then the
\* operations
makeApiConfig(config) ==
  [ f \in DOMAIN config \cup Operations |->
      IF f \in Operations THEN [t |-> "function", name |-> f] ELSE config[f] ]

\* reading a property of undefined
TypeErrorMessage == <<"Cannot read properties of undefined (reading 'includes')">>

\* variant: the request content type is the one converted
boundConvertResponseType_RequestType(config, adapterType) ==
  IF adapterType \notin AdapterTypes THEN convertResponseType("", adapterType)
  ELSE IF config.requestContentType = Undefined THEN Throw(TypeErrorMessage)
  ELSE convertResponseType(config.requestContentType.s, adapterType)

\* the configuration's convertResponseType: an unsupported client kind is
\* rejected before the content type is looked at; with the field omitted the
\* classifier is entered with undefined and fails at its first method call
boundConvertResponseType(config, adapterType) ==
  IF adapterType \notin AdapterTypes THEN convertResponseType("", adapterType)
  ELSE IF config.responseContentType = Undefined THEN Throw(TypeErrorMessage)
  ELSE convertResponseType(config.responseContentType.s, adapterType)

boundConvertResponseTypeCalls(config, adapterType) ==
  IF adapterType \notin AdapterTypes THEN {"convertResponseType"}
  ELSE IF config.responseContentType = Undefined
       THEN convertResponseTypeCalls("", adapterType) \ {"extractCharset"}
  ELSE convertResponseTypeCalls(config.responseContentType.s, adapterType)

InitConfig ==
  /\ entryConfig \in Descriptors
  /\ op = "idle"
  /\ args = [none |-> TRUE]
  /\ ret = Return(Undefined)
  /\ invoked = {}

BoundConvertResponseType(adapterType) ==
  /\ op = "idle"
  /\ op' = "config.convertResponseType"
  /\ args' = [adapterType |-> adapterType]
  /\ ret' = boundConvertResponseType(entryConfig, adapterType)
  /\ invoked' = boundConvertResponseTypeCalls(entryConfig, adapterType)
  /\ UNCHANGED entryConfig

\* variant: the helper checks its argument against an object schema
MakeIdentity_Validates(helper, value) ==
  /\ op = "idle"
  /\ op' = helper
  /\ args' = [value |-> value]
  /\ ret' = IF value.t = "Object" THEN Return(value) ELSE Throw(<<"ZodError">>)
  /\ invoked' = {helper}
  /\ UNCHANGED entryConfig

\* makeBody, makeParams and the other helpers return their argument
MakeIdentity(helper, value) ==
  /\ op = "idle"
  /\ op' = helper
  /\ args' = [value |-> value]
  /\ ret' = Return(value)
  /\ invoked' = {helper}
  /\ UNCHANGED entryConfig

HelperValues == { Obj("caller", << <<"id", Str("9")>> >>), Str("x"), Undefined }

NextConfig ==
  \/ \E params \in ParamObjects : MakeFullPath(params)
  \/ MakeOpenAPIPath
  \/ \E adapterType \in AdapterArguments : BoundConvertResponseType(adapterType)
  \/ \E helper \in IdentityHelpers, value \in HelperValues : MakeIdentity(helper, value)
  \/ Continue

SpecConfig == InitConfig /\ [][NextConfig]_vars

(***************************************************************************)
(* Response envelope builder: makeResponseSuccessShape, item, list.  The   *)
(* schemas are those of the validation library: string, number, optional,  *)
(* array and object schemas, an object schema ignoring undeclared keys     *)
(* ("strip") or rejecting them ("strict").                                 *)
(***************************************************************************)
ZodString == [t |-> "ZodString"]
ZodNumber == [t |-> "ZodNumber"]
ZodOptional(innerType) == [t |-> "ZodOptional", innerType |-> innerType]
ZodArray(element) == [t |-> "ZodArray", element |-> element]
\* shape: the declared fields, <<name, schema>> in declaration order
ZodObject(shape, unknownKeys) ==
  [t |-> "ZodObject", shape |-> shape, unknownKeys |-> unknownKeys]

\* value[name]; undefined when the object has no such property
Get(value, name) ==
  IF \E i \in 1..Len(value.entries) : value.entries[i][1] = name
  THEN value.entries[CHOOSE i \in 1..Len(value.entries) : value.entries[i][1] = name][2]
  ELSE Undefined

ShapeKeys(shape) == { shape[i][1] : i \in 1..Len(shape) }

\* schema.safeParse(value).success
RECURSIVE Accepts(_, _)
Accepts(schema, value) ==
  CASE schema.t = "ZodString" -> value.t = "string"
    [] schema.t = "ZodNumber" -> value.t = "number"
    [] schema.t = "ZodOptional" ->
         value.t = "undefined" \/ Accepts(schema.innerType, value)
    [] schema.t = "ZodArray" ->
         /\ value.t = "Array"
         /\ \A i \in 1..Len(value.items) : Accepts(schema.element, value.items[i])
    [] schema.t = "ZodObject" ->
         /\ value.t = "Object"
         /\ \A i \in 1..Len(schema.shape) :
              Accepts(schema.shape[i][2], Get(value, schema.shape[i][1]))
         /\ schema.unknownKeys = "strict" =>
              \A i \in 1..Len(value.entries) :
                value.entries[i][1] \in ShapeKeys(schema.shape)

\* { ...a, ...b } of two shapes: a's fields, b's schema where both declare
\* the name, then b's other fields
SpreadShapes(a, b) ==
  [i \in 1..Len(a) |->
     IF a[i][1] \in ShapeKeys(b)
     THEN <<a[i][1], b[CHOOSE j \in 1..Len(b) : b[j][1] = a[i][1]][2]>>
     ELSE a[i]]
    \o SelectSeq(b, LAMBDA e : e[1] \notin ShapeKeys(a))

\* a.merge(b): the fields of both, the policy for undeclared keys of b
Merge(a, b) == ZodObject(SpreadShapes(a.shape, b.shape), b.unknownKeys)

\* the default of the key parameter
KeyOf(key) == IF key = Undefined THEN "data" ELSE key.s

\* variant: the field is always named data
item_DataKey(response, key) == ZodObject(<< <<"data", response>> >>, "strip")

\* makeResponseSuccessShape(response, key).item()
item(response, key) == ZodObject(<< <<KeyOf(key), response>> >>, "strip")

\* variant: the payload is not wrapped in an array
list_SingleItem(response, key, and) ==
  Merge(ZodObject(<< <<KeyOf(key), response>> >>, "strip"), and)

\* makeResponseSuccessShape(response, key).list(and)
list(response, key, and) ==
  Merge(ZodObject(<< <<KeyOf(key), ZodArray(response)>> >>, "strip"), and)

(***************************************************************************)
(* Inputs of the envelope builder and the calls on it.                     *)
(***************************************************************************)
UserSchema == ZodObject(<< <<"id", ZodString>> >>, "strip")

PayloadSchemas == { ZodString, UserSchema, ZodOptional(ZodString) }

\* the key argument; undefined when the caller gives none
EnvelopeKeys == { Undefined, Str("user"), Str("page") }

MetaSchemas ==
  { ZodObject(<<>>, "strip"),
    ZodObject(<< <<"page", ZodNumber>> >>, "strip"),
    ZodObject(<< <<"page", ZodNumber>>, <<"total", ZodOptional(ZodNumber)>> >>, "strict") }

User(id) == Obj("caller.user", << <<"id", id>> >>)

ParsedValues ==
  { Str("a"), Null,
    Arr("caller", <<Str("a")>>),
    Obj("caller", <<>>),
    Obj("caller", << <<"page", Num(1)>> >>),
    Obj("caller", << <<"data", Str("a")>> >>),
    Obj("caller", << <<"data", Num(1)>> >>),
    Obj("caller", << <<"data", Arr("caller.data", <<Str("a"), Str("b")>>)>>, <<"page", Num(1)>> >>),
    Obj("caller", << <<"data", Arr("caller.data", <<Str("a"), Num(2)>>)>>, <<"page", Num(1)>> >>),
    Obj("caller", << <<"data", Arr("caller.data", <<>>)>>, <<"page", Str("x")>> >>),
    Obj("caller", << <<"data", Arr("caller.data", <<>>)>>, <<"page", Num(1)>>,
                     <<"extra", Str("e")>> >>),
    Obj("caller", << <<"user", User(Str("1"))>> >>),
    Obj("caller", << <<"user", User(Str("1"))>>, <<"page", Num(1)>> >>),
    Obj("caller", << <<"user", User(Num(1))>> >>),
    Obj("caller", << <<"user", Arr("caller.user", <<User(Str("1")), User(Str("2"))>>)>>,
                     <<"page", Num(1)>>, <<"total", Num(2)>> >>),
    Obj("caller", << <<"user", Arr("caller.user", <<User(Str("1")), User(Num(2))>>)>>,
                     <<"page", Num(1)>> >>),
    Obj("caller", << <<"page", Arr("caller.page", <<Str("a")>>)>> >>) }

Item(response, key) ==
  /\ op = "idle"
  /\ op' = "item"
  /\ args' = [response |-> response, key |-> key]
  /\ ret' = Return(item(response, key))
  /\ invoked' = {"makeResponseSuccessShape", "item"}
  /\ UNCHANGED entryConfig

\* makeResponseSuccessShape(response, key).item().safeParse(value).success
ItemSafeParse(response, key, value) ==
  /\ op = "idle"
  /\ op' = "item.safeParse"
  /\ args' = [response |-> response, key |-> key, value |-> value]
  /\ ret' = Return(Bool(Accepts(item(response, key), value)))
  /\ invoked' = {"makeResponseSuccessShape", "item", "safeParse"}
  /\ UNCHANGED entryConfig

List(response, key, and) ==
  /\ op = "idle"
  /\ op' = "list"
  /\ args' = [response |-> response, key |-> key, and |-> and]
  /\ ret' = Return(list(response, key, and))
  /\ invoked' = {"makeResponseSuccessShape", "list"}
  /\ UNCHANGED entryConfig

\* makeResponseSuccessShape(response, key).list(and).safeParse(value).success
ListSafeParse(response, key, and, value) ==
  /\ op = "idle"
  /\ op' = "list.safeParse"
  /\ args' = [response |-> response, key |-> key, and |-> and, value |-> value]
  /\ ret' = Return(Bool(Accepts(list(response, key, and), value)))
  /\ invoked' = {"makeResponseSuccessShape", "list", "safeParse"}
  /\ UNCHANGED entryConfig

NextShape ==
  \/ \E response \in PayloadSchemas, key \in EnvelopeKeys : Item(response, key)
  \/ \E response \in PayloadSchemas, key \in EnvelopeKeys, value \in ParsedValues :
        ItemSafeParse(response, key, value)
  \/ \E response \in PayloadSchemas, key \in EnvelopeKeys, and \in MetaSchemas :
        List(response, key, and)
  \/ \E response \in PayloadSchemas, key \in EnvelopeKeys, and \in MetaSchemas,
        value \in ParsedValues : ListSafeParse(response, key, and, value)
  \/ Continue

SpecShape == InitAdapters /\ [][NextShape]_vars

(***************************************************************************)
(* The library as a whole.                                                 *)
(***************************************************************************)
Next == NextPath \/ NextAdapters \/ NextBody \/ NextConfig \/ NextShape

Spec == Init /\ [][Next]_vars

(***************************************************************************)
(* Vocabulary of the path claims: a template read as "/"-separated         *)
(* segments, a placeholder being a whole segment.                          *)
(***************************************************************************)
\* the "/"-separated segments of a template
Segments(str, i, cur) == Split(str, "/", i, cur)

RECURSIVE Join(_, _)
Join(segs, k) ==
  IF k > Len(segs) THEN ""
  ELSE (IF k > 1 THEN "/" ELSE "") \o segs[k] \o Join(segs, k + 1)

IsIdentifier(s) ==
  /\ Len(s) >= 1
  /\ CharAt(s, 1) \in IdentStart
  /\ \A i \in 2..Len(s) : CharAt(s, i) \in IdentChar

IsColonSegment(seg) == StartsWith(seg, ":") /\ IsIdentifier(SubSeq(seg, 2, Len(seg)))

PlainSegment(seg) == ~Includes(seg, ":") /\ ~Includes(seg, "{") /\ ~Includes(seg, "}")

\* a template in colon notation whose placeholders all end at "/" or at the end
ColonTemplate(t) ==
  \A k \in 1..Len(Segments(t, 1, "")) :
     LET seg == Segments(t, 1, "")[k] IN IsColonSegment(seg) \/ PlainSegment(seg)

ParamNames(params) == { params[k][1] : k \in 1..Len(params) }

ParamValue(params, key) == (CHOOSE k \in 1..Len(params) : params[k][1] = key)

PlaceholderNames(t) ==
  { SubSeq(Segments(t, 1, "")[k], 2, Len(Segments(t, 1, "")[k])) :
      k \in { j \in 1..Len(Segments(t, 1, "")) : IsColonSegment(Segments(t, 1, "")[j]) } }

\* the same template in brace notation
BraceNotation(t) ==
  LET segs == Segments(t, 1, "") IN
  Join([k \in 1..Len(segs) |->
          IF IsColonSegment(segs[k]) THEN "{" \o SubSeq(segs[k], 2, Len(segs[k])) \o "}"
          ELSE segs[k]], 1)

\* the template with every placeholder replaced by the string form of its value
Substituted(t, params) ==
  LET segs == Segments(t, 1, "") IN
  Join([k \in 1..Len(segs) |->
          IF IsColonSegment(segs[k])
          THEN StringOf(params[ParamValue(params, SubSeq(segs[k], 2, Len(segs[k])))][2])
          ELSE segs[k]], 1)

(***************************************************************************)
(* Claims about path resolution.                                           *)
(***************************************************************************)
\* C1: for a colon-notation template whose placeholders end at "/" or at the
\* end of the string, and a params object supplying every placeholder name,
\* makeFullPath returns the template with each placeholder replaced by the
\* string form of its value, and returns the same string for the template
\* written in brace notation.
C1_DualSyntaxResolution ==
  ( /\ op = "makeFullPath"
    /\ ColonTemplate(entryConfig.pathShape)
    /\ PlaceholderNames(entryConfig.pathShape) \subseteq ParamNames(args.params) )
  => /\ ret = Return(Str(Substituted(entryConfig.pathShape, args.params)))
     /\ ret = Return(Str(makeFullPath(BraceNotation(entryConfig.pathShape), args.params)))

\* the key names a placeholder of the template, in either notation
NamesPlaceholder(t, key) ==
  \E i \in 1..Len(t) : \/ MatchesAt(t, ":" \o key, TRUE, i)
                       \/ MatchesAt(t, "{" \o key \o "}", FALSE, i)

\* params without the property key
RECURSIVE Without(_, _, _)
Without(params, key, k) ==
  IF k > Len(params) THEN <<>>
  ELSE (IF params[k][1] = key THEN <<>> ELSE <<params[k]>>) \o Without(params, key, k + 1)

\* C9: makeFullPath never throws; a key of params that names no placeholder
\* of the template leaves the output unchanged; a placeholder whose name is
\* not a key of params appears unresolved in the output.
C9_PermissiveResolution ==
  op = "makeFullPath" =>
    /\ ret.kind = "return"
    /\ \A key \in ParamNames(args.params) :
         ~NamesPlaceholder(entryConfig.pathShape, key)
           => ret.val.s = makeFullPath(entryConfig.pathShape, Without(args.params, key, 1))
    /\ \A key \in ParamKeys \ ParamNames(args.params) :
         /\ (\E i \in 1..Len(entryConfig.pathShape) :
                MatchesAt(entryConfig.pathShape, ":" \o key, TRUE, i))
              => Includes(ret.val.s, ":" \o key)
         /\ Includes(entryConfig.pathShape, "{" \o key \o "}")
              => Includes(ret.val.s, "{" \o key \o "}")

\* C10: makeOpenAPIPath is idempotent: rewriting its own result changes nothing.
C10_CanonicalFormIdempotent ==
  op = "makeOpenAPIPath" => makeOpenAPIPath(ret.val.s) = ret.val.s

\* a template with a colon placeholder has been rewritten, a colon being left over
C10_Witness ==
  /\ op = "makeOpenAPIPath"
  /\ ret.val.s # entryConfig.pathShape
  /\ Includes(ret.val.s, ":")

(***************************************************************************)
(* Claims about the content-type adapter.                                  *)
(***************************************************************************)
Families == {"json", "binary", "xml", "formdata", "text"}

\* C3: classification returns, without throwing, one of the five families
\* for every catalog content type and every other string, and text for a
\* string that matches none of the json, binary, xml and formdata rules.
C3_ClassificationTotal ==
  op = "contentTypeCategory" =>
    /\ ret.kind = "return"
    /\ ret.val.t = "string"
    /\ ret.val.s \in Families
    /\ ( ~JsonRule(args.contentType) /\ ~BinaryRule(args.contentType)
         /\ ~XmlRule(args.contentType) /\ ~FormDataRule(args.contentType) )
       => ret.val.s = "text"

\* a string outside the catalog that matches no rule has been classified
C3_Witness ==
  /\ op = "contentTypeCategory"
  /\ args.contentType = "application/unknown"
  /\ ret = Return(Str("text"))

\* the client kind a directive was produced for
ClientKind ==
  CASE op = "toAxiosResponseType" -> "axios"
    [] op = "toUniAppResponseType" -> "alova-uniapp"
    [] op = "toXHRResponseType" -> "alova-xhr"
    [] op = "toTaroResponseType" -> "alova-taro"
    [] op = "toFetchResponseMethod" -> "fetch"
    [] op = "convertResponseType" -> args.adapter
    [] OTHER -> "none"

DirectiveReturned == ClientKind \in AdapterTypes /\ ret.kind = "return"

\* the table of the claim: client kind and family to the fields it states
StatedDirective(kind, family) ==
  CASE kind \in {"axios", "alova-axios"} ->
         [responseType |-> CASE family = "json" -> "json"
                             [] family = "binary" -> "blob"
                             [] family = "xml" -> "document"
                             [] family = "formdata" -> "blob"
                             [] family = "text" -> "text"]
    [] kind = "alova-uniapp" ->
         CASE family = "json" -> [responseType |-> "text", dataType |-> "json"]
           [] family = "binary" -> [responseType |-> "arraybuffer"]
           [] OTHER -> [responseType |-> "text"]
    [] kind = "alova-xhr" ->
         [responseType |-> CASE family = "json" -> "json"
                             [] family = "binary" -> "blob"
                             [] family = "xml" -> "document"
                             [] family = "formdata" -> "text"
                             [] family = "text" -> "text"]
    [] kind = "alova-taro" ->
         CASE family = "json" -> [responseType |-> "text", dataType |-> "json"]
           [] family = "binary" -> [responseType |-> "arraybuffer", dataType |-> "arraybuffer"]
           [] OTHER -> [responseType |-> "text"]
    [] kind = "fetch" ->
         [responseMethod |-> CASE family = "json" -> "json"
                               [] family = "binary" -> "blob"
                               [] family = "xml" -> "text"
                               [] family = "formdata" -> "formData"
                               [] family = "text" -> "text"]

\* a directive without its responseEncoding field
WithoutEncoding(directive) ==
  [f \in DOMAIN directive \ {"responseEncoding"} |-> directive[f]]

\* C4: the directive is determined by the family of the content type (apart
\* from responseEncoding) and carries the fields of the fixed table.
C4_FixedTable ==
  DirectiveReturned =>
    LET family == contentTypeCategory(args.contentType)
        stated == StatedDirective(ClientKind, family)
    IN  /\ \A f \in DOMAIN stated : f \in DOMAIN ret.val /\ ret.val[f] = stated[f]
        /\ \A other \in ContentTypeStrings :
             contentTypeCategory(other) = family
               => WithoutEncoding(convertResponseType(other, ClientKind).val)
                    = WithoutEncoding(ret.val)

\* a formdata content type has been converted for the fetch-style client
C4_Witness ==
  /\ op = "convertResponseType"
  /\ args = [contentType |-> "multipart/form-data", adapter |-> "fetch"]
  /\ ret = Return([responseMethod |-> "formData"])

GenericBufferClient == ClientKind \in {"axios", "alova-axios"}

\* C5 as stated: the generic-buffer directive has a responseEncoding exactly
\* when its responseType is text or document, and no other directive has one.
C5_EncodingForTextAndDocument ==
  DirectiveReturned =>
    ("responseEncoding" \in DOMAIN ret.val)
      <=> (GenericBufferClient /\ ret.val.responseType \in {"text", "document"})

\* C5 amended: the generic-buffer directive has a responseEncoding exactly
\* when its responseType is text (utf-8 when the content type has no charset
\* parameter); json, blob and document directives consist of the
\* responseType alone, and no other client kind's directive has the field.
C5_EncodingForTextOnly ==
  DirectiveReturned =>
    /\ ("responseEncoding" \in DOMAIN ret.val)
         <=> (GenericBufferClient /\ ret.val.responseType = "text")
    /\ (GenericBufferClient /\ ret.val.responseType = "text"
          /\ ~Includes(args.contentType, "charset="))
         => ret.val = [responseType |-> "text", responseEncoding |-> "utf-8"]
    /\ (GenericBufferClient /\ ret.val.responseType # "text")
         => DOMAIN ret.val = {"responseType"}
    /\ (GenericBufferClient /\ args.contentType = "application/json")
         => ret.val = [responseType |-> "json"]
    /\ (GenericBufferClient /\ args.contentType = "application/pdf")
         => ret.val = [responseType |-> "blob"]

\* an xml content type has been converted for the generic-buffer client
C5_Witness ==
  /\ op = "convertResponseType"
  /\ args = [contentType |-> "application/xml", adapter |-> "axios"]
  /\ ret = Return([responseType |-> "document"])

(***************************************************************************)
(* Claims about request body coercion.                                     *)
(***************************************************************************)
\* C2: safeConvertRequestBody returns the payload itself, without entering
\* convertRequestBody, when needsConversion is false, and the outcome of
\* convertRequestBody when it is true.
C2_SafeConvertRelation ==
  op = "safeConvertRequestBody" =>
    IF needsConversion(args.data, args.contentType)
    THEN ret = convertRequestBody(args.data, args.contentType)
    ELSE ret = Return(args.data) /\ "convertRequestBody" \notin invoked

\* a payload that needs no conversion, and that convertRequestBody rejects,
\* has been passed through
C2_Witness ==
  /\ op = "safeConvertRequestBody"
  /\ ~needsConversion(args.data, args.contentType)
  /\ convertRequestBody(args.data, args.contentType).kind = "throw"
  /\ ret = Return(args.data)
  /\ invoked = {"safeConvertRequestBody", "needsConversion"}

NameObject == Obj("caller", << <<"name", Str("a")>> >>)

\* C6: for the JSON and the text content types convertRequestBody returns a
\* string for every payload that is neither null nor undefined: a string
\* payload itself, otherwise the JSON serialization, except that a
\* non-object payload is string-coerced for the text content types.
C6_JsonAndTextGiveStrings ==
  /\ ( /\ op = "convertRequestBody"
       /\ args.contentType \in JsonTypes \cup TextTypes
       /\ ~IsNullish(args.data) )
     => /\ ret.kind = "return"
        /\ ret.val.t = "string"
        /\ TypeOf(args.data) = "string" => ret.val = args.data
        /\ (TypeOf(args.data) # "string" /\ args.contentType \in JsonTypes)
             => ret.val.s = JSONStringify(args.data)
        /\ (TypeOf(args.data) = "object" /\ args.contentType \in TextTypes)
             => ret.val.s = JSONStringify(args.data)
        /\ (TypeOf(args.data) \notin {"string", "object"} /\ args.contentType \in TextTypes)
             => ret.val.s = StringOf(args.data)
        /\ (args.data = NameObject) => ret.val.s = "{\"name\":\"a\"}"
  /\ ( op = "safeConvertRequestBody" /\ args.contentType = "application/json" )
     => /\ args.data = Str("{\"name\":\"a\"}") => ret = Return(args.data)
        /\ args.data = NameObject => ret = Return(Str("{\"name\":\"a\"}"))

\* an object has been serialized for a text content type
C6_Witness ==
  /\ op = "convertRequestBody"
  /\ args.contentType = "text/plain"
  /\ args.data = NameObject
  /\ ret = Return(Str("{\"name\":\"a\"}"))

\* the three situations in which convertRequestBody is to throw
UnsupportedConversion(data, contentType) ==
  \/ contentType = "application/xml" /\ TypeOf(data) = "object"
  \/ contentType \in PreEncodedTypes
       /\ ~(InstanceOf(data, "ArrayBuffer") \/ InstanceOf(data, "Blob"))
  \/ contentType \in MediaTypes
       /\ ~(InstanceOf(data, "File") \/ InstanceOf(data, "Blob")
            \/ InstanceOf(data, "ArrayBuffer"))

\* C7: for a payload that is neither null nor undefined convertRequestBody
\* throws exactly for an object with application/xml, for a payload that is
\* neither buffer nor blob with msgpack or protobuf, and for a payload that
\* is neither file, blob nor buffer with a media content type; for a content
\* type outside the catalog it returns the payload itself.
C7_ThrowsInThreeSituations ==
  (op = "convertRequestBody" /\ ~IsNullish(args.data)) =>
    /\ ret.kind = "throw" <=> UnsupportedConversion(args.data, args.contentType)
    /\ args.contentType \notin RequestContentTypes => ret = Return(args.data)

\* an object has been rejected for application/xml
C7_Witness ==
  /\ op = "convertRequestBody"
  /\ args.contentType = "application/xml"
  /\ args.data = NameObject
  /\ ret.kind = "throw"

\* the message of a thrown error holds the content type
NamesContentType(outcome, contentType) ==
  \E k \in 1..Len(outcome.message) : Includes(outcome.message[k], contentType)

\* C8: every error convertRequestBody throws names the content type it was
\* called with.
C8_ErrorNamesContentType ==
  (op = "convertRequestBody" /\ ret.kind = "throw")
    => NamesContentType(ret, args.contentType)

\* the representation a content type's family requires of a payload, as the
\* families are named by their content types
SatisfiesFamily(data, contentType) ==
  CASE contentType \in {"application/json", "application/ld+json",
                        "application/vnd.api+json", "application/json-patch+json",
                        "application/merge-patch+json", "application/vnd.github+json",
                        "text/plain", "text/html", "text/xml", "text/csv",
                        "text/markdown", "text/yaml"} -> data.t = "string"
    [] contentType = "application/x-www-form-urlencoded" -> data.t = "URLSearchParams"
    [] contentType = "multipart/form-data" -> data.t = "FormData"
    [] contentType \in {"application/octet-stream", "application/pdf",
                        "application/zip", "application/gzip"} ->
         data.t \in {"ArrayBuffer", "Blob", "File", "ReadableStream"}

FamilyTypes ==
  {"application/json", "application/ld+json", "application/vnd.api+json",
   "application/json-patch+json", "application/merge-patch+json",
   "application/vnd.github+json", "text/plain", "text/html", "text/xml", "text/csv",
   "text/markdown", "text/yaml", "application/x-www-form-urlencoded",
   "multipart/form-data", "application/octet-stream", "application/pdf",
   "application/zip", "application/gzip"}

(* C11: needsConversion answers false for a null or undefined payload with *)
(* any content type; for any other payload and a content type of the json, *)
(* text, form-urlencoded, multipart or binary family it answers true       *)
(* exactly when the payload is not already in the representation the       *)
(* family requires (string; encoded-parameter-map; multi-part container;   *)
(* buffer, blob or stream).                                                *)
C11_NeedsConversionByFamily ==
  op = "needsConversion" =>
    /\ ret.kind = "return"
    /\ ret.val.t = "boolean"
    /\ args.data.t \in {"null", "undefined"} => ret.val.b = FALSE
    /\ (args.data.t \notin {"null", "undefined"} /\ args.contentType \in FamilyTypes)
         => (ret.val.b = ~SatisfiesFamily(args.data, args.contentType))

C11_Witness ==
  /\ op = "needsConversion"
  /\ args.data.t = "ReadableStream"
  /\ args.contentType = "application/zip"
  /\ ret = Return(Bool(FALSE))

\* the entries the claim states for a mapping: one per key with a present
\* value, in key order, the value string-coerced
PresentEntries(entries) ==
  SelectSeq(entries, LAMBDA e : e[2].t \notin {"null", "undefined"})

CoercedEntries(entries) ==
  [i \in 1..Len(PresentEntries(entries)) |->
     <<PresentEntries(entries)[i][1], Str(StringOf(PresentEntries(entries)[i][2]))>>]

(* C12: for application/x-www-form-urlencoded, convertRequestBody returns  *)
(* an existing URLSearchParams itself; turns a string into a new           *)
(* URLSearchParams holding the pairs of the query string ("a=1&b=x+y"      *)
(* gives a -> "1", b -> "x y"); and from a plain object builds a new       *)
(* URLSearchParams holding, in key order, one entry per key whose value is *)
(* neither null nor undefined, the value string-coerced.                   *)
C12_FormUrlEncoded ==
  (op = "convertRequestBody" /\ args.contentType = "application/x-www-form-urlencoded")
    => /\ args.data.t = "URLSearchParams" => ret = Return(args.data)
       /\ args.data.t = "string" =>
            /\ ret.kind = "return"
            /\ ret.val.t = "URLSearchParams"
            /\ ret.val.ref # "caller"
            /\ args.data.s = "a=1&b=x+y" =>
                 ret.val.entries = << <<"a", Str("1")>>, <<"b", Str("x y")>> >>
       /\ args.data.t = "Object" =>
            /\ ret.kind = "return"
            /\ ret.val.t = "URLSearchParams"
            /\ ret.val.ref # "caller"
            /\ ret.val.entries = CoercedEntries(args.data.entries)

C12_Witness ==
  /\ op = "convertRequestBody"
  /\ args.contentType = "application/x-www-form-urlencoded"
  /\ args.data.t = "Object"
  /\ \E i \in 1..Len(args.data.entries) : args.data.entries[i][2].t = "null"
  /\ ret.kind = "return"
  /\ ret.val.t = "URLSearchParams"
  /\ ret.val.entries = << <<"a", Str("1")>>, <<"d", Str("x")>> >>

\* the name of the sub-field of an array value's element: key[index]
IndexedName(key, index) == key \o "[" \o NatToString(index) \o "]"

IsBinaryLike(v) == v.t \in {"Blob", "File"}

\* the fields stated for one value of the mapping
StatedItems(key, items) ==
  [i \in 1..Len(items) |->
     <<IndexedName(key, i - 1),
       IF IsBinaryLike(items[i]) THEN items[i] ELSE Str(StringOf(items[i]))>>]

StatedField(key, value) ==
  IF IsBinaryLike(value) THEN << <<key, value>> >>
  ELSE IF value.t = "Array" THEN StatedItems(key, value.items)
  ELSE IF value.t \in {"Object", "FormData", "URLSearchParams", "ArrayBuffer",
                       "ReadableStream"}
       THEN << <<key, Str(JSONStringify(value))>> >>
  ELSE << <<key, Str(StringOf(value))>> >>

\* the fields stated for the mapping, in key order
RECURSIVE StatedFields(_, _)
StatedFields(entries, k) ==
  IF k > Len(entries) THEN <<>>
  ELSE StatedField(entries[k][1], entries[k][2]) \o StatedFields(entries, k + 1)

(* C13 as stated: for multipart/form-data, convertRequestBody returns an   *)
(* existing FormData itself and from a plain object builds a new FormData  *)
(* with, for every key in key order, the fields of its value: a file or    *)
(* blob as is, an array's elements under key[index] (files and blobs as    *)
(* is, the others string-coerced), a nested object JSON-stringified, any   *)
(* other scalar string-coerced.                                            *)
C13_MultipartEveryKey ==
  (op = "convertRequestBody" /\ args.contentType = "multipart/form-data")
    => /\ args.data.t = "FormData" => ret = Return(args.data)
       /\ args.data.t = "Object" =>
            /\ ret.kind = "return"
            /\ ret.val.t = "FormData"
            /\ ret.val.ref # "caller"
            /\ ret.val.entries = StatedFields(args.data.entries, 1)

(* C13 amended: the same, except that a key whose value is null or         *)
(* undefined contributes no field.                                         *)
C13_MultipartPresentKeys ==
  (op = "convertRequestBody" /\ args.contentType = "multipart/form-data")
    => /\ args.data.t = "FormData" => ret = Return(args.data)
       /\ args.data.t = "Object" =>
            /\ ret.kind = "return"
            /\ ret.val.t = "FormData"
            /\ ret.val.ref # "caller"
            /\ ret.val.entries = StatedFields(PresentEntries(args.data.entries), 1)

C13_Witness ==
  /\ op = "convertRequestBody"
  /\ args.contentType = "multipart/form-data"
  /\ args.data.t = "Object"
  /\ ret.kind = "return"
  /\ ret.val.t = "FormData"
  /\ Len(ret.val.entries) = 4
  /\ ret.val.entries[1][1] = "file" /\ ret.val.entries[1][2].t = "Blob"
  /\ ret.val.entries[2] = <<"tags[0]", Str("x")>>
  /\ ret.val.entries[3][1] = "tags[1]" /\ ret.val.entries[3][2].t = "File"
  /\ ret.val.entries[4] = <<"meta", Str("{\"k\":1}")>>

BinaryFamily ==
  {"application/octet-stream", "application/pdf", "application/zip", "application/gzip"}

MediaFamily ==
  { c \in RequestContentTypes :
      StartsWith(c, "image/") \/ StartsWith(c, "audio/") \/ StartsWith(c, "video/") }

\* the outcome is a newly built Blob of the one part, tagged with the type
WrappedAs(outcome, part, type) ==
  /\ outcome.kind = "return"
  /\ outcome.val.t = "Blob"
  /\ outcome.val.ref # "caller"
  /\ outcome.val.parts = <<part>>
  /\ outcome.val.type = type

(* C14: for octet-stream, pdf, zip and gzip, convertRequestBody returns an *)
(* ArrayBuffer, Blob (File included) or ReadableStream payload itself and  *)
(* wraps a string, or the JSON text of an object or array, into a new Blob *)
(* whose type is the content type; for the image, audio and video types it *)
(* returns a File or Blob payload itself and wraps an ArrayBuffer into a   *)
(* new Blob whose type is the content type.                                *)
C14_BinaryAndMediaWrapping ==
  op = "convertRequestBody" =>
    /\ args.contentType \in BinaryFamily =>
         /\ args.data.t \in {"ArrayBuffer", "Blob", "File", "ReadableStream"}
              => ret = Return(args.data)
         /\ args.data.t = "string" => WrappedAs(ret, args.data, args.contentType)
         /\ args.data.t \in {"Object", "Array"}
              => WrappedAs(ret, Str(JSONStringify(args.data)), args.contentType)
    /\ args.contentType \in MediaFamily =>
         /\ args.data.t \in {"Blob", "File"} => ret = Return(args.data)
         /\ args.data.t = "ArrayBuffer" => WrappedAs(ret, args.data, args.contentType)

C14_Witness ==
  /\ op = "convertRequestBody"
  /\ args.contentType = "application/pdf"
  /\ args.data = Obj("caller", << <<"name", Str("a")>> >>)
  /\ ret.kind = "return"
  /\ ret.val.t = "Blob"
  /\ ret.val.parts = <<Str("{\"name\":\"a\"}")>>
  /\ ret.val.type = "application/pdf"

SupportedKinds == {"axios", "alova-axios", "alova-uniapp", "alova-xhr", "alova-taro", "fetch"}

\* the error's message contains the text
MessageNames(outcome, text) ==
  /\ outcome.kind = "throw"
  /\ \E i \in 1..Len(outcome.message) : outcome.message[i] = text

(* C15: convertResponseType throws for every client kind outside axios,    *)
(* alova-axios, alova-uniapp, alova-xhr, alova-taro and fetch, whatever    *)
(* the content type, with a message that contains the rejected kind, and   *)
(* returns for every supported kind and every string content type.         *)
C15_InvalidAdapter ==
  op = "convertResponseType" =>
    IF args.adapter \in SupportedKinds
    THEN ret.kind = "return"
    ELSE MessageNames(ret, args.adapter)

C15_Witness ==
  /\ op = "convertResponseType"
  /\ args.adapter = "jquery"
  /\ args.contentType = "application/json"
  /\ ret = Throw(<<"Unsupported adapter: ", "jquery">>)

(***************************************************************************)
(* Claims about the endpoint configuration.                                *)
(***************************************************************************)
\* a declared content type is one of the catalog; an omitted one is not
\* judged
InCatalog(contentType, catalog) ==
  contentType.t = "string" => contentType.s \in catalog

(* C16: every configuration the factory has produced comes from a          *)
(* descriptor whose path template starts with "/", whose request content   *)
(* type is in the request catalog and whose response content type is in    *)
(* the response catalog.                                                   *)
C16_DescriptorValidated ==
  /\ SubSeq(entryConfig.pathShape, 1, 1) = "/"
  /\ InCatalog(entryConfig.requestContentType, RequestContentTypes)
  /\ InCatalog(entryConfig.responseContentType, ResponseContentTypes)

\* the outcome of an operation of the configuration as a function of the
\* descriptor's fields and the call's arguments
OutcomeOf(config, operation, arguments) ==
  CASE operation = "makeFullPath" ->
         Return(Str(makeFullPath(config.pathShape, arguments.params)))
    [] operation = "makeOpenAPIPath" -> Return(Str(makeOpenAPIPath(config.pathShape)))
    [] operation = "config.convertResponseType" ->
         boundConvertResponseType(config, arguments.adapterType)
    [] operation \in IdentityHelpers -> Return(arguments.value)

(* C17: no call of an operation of a configuration (makeFullPath,          *)
(* makeOpenAPIPath, convertResponseType, the identity helpers), in any     *)
(* sequence, changes a field of the descriptor, and the outcome of each    *)
(* call is a function of its arguments and of the descriptor's fields.     *)
C17_DescriptorNeverMutated ==
  [][ /\ entryConfig' = entryConfig
      /\ op' # "idle" => ret' = OutcomeOf(entryConfig, op', args') ]_vars

C17_Witness ==
  /\ op = "makeFullPath"
  /\ args.params = << <<"id", Str("9")>> >>
  /\ entryConfig.pathShape = "/users/:id"
  /\ ret = Return(Str("/users/9"))

(* C18: the object the factory returns holds every field of the descriptor *)
(* with the descriptor's value; for a descriptor that declares a response  *)
(* content type, convertResponseType(kind) of the configuration gives the  *)
(* outcome of the adapter's convertResponseType(responseContentType, kind);*)
(* makeFullPath and makeOpenAPIPath work on the descriptor's pathShape.    *)
C18_BoundEqualsUnbound ==
  /\ \A f \in DOMAIN entryConfig : makeApiConfig(entryConfig)[f] = entryConfig[f]
  /\ (op = "config.convertResponseType" /\ entryConfig.responseContentType.t = "string")
       => ret = convertResponseType(entryConfig.responseContentType.s, args.adapterType)
  /\ op = "makeFullPath"
       => ret = Return(Str(makeFullPath(entryConfig.pathShape, args.params)))
  /\ op = "makeOpenAPIPath"
       => ret = Return(Str(makeOpenAPIPath(entryConfig.pathShape)))

C18_Witness ==
  /\ op = "config.convertResponseType"
  /\ entryConfig.responseContentType = Str("application/pdf")
  /\ entryConfig.requestContentType = Str("application/json")
  /\ args.adapterType = "alova-axios"
  /\ ret = Return([responseType |-> "blob"])

(***************************************************************************)
(* Claims about the response envelope builder.                             *)
(***************************************************************************)
\* the name of the envelope's field: the key given, "data" when none is
FieldName(key) == IF key.t = "undefined" THEN "data" ELSE key.s

HasField(value, name) == \E i \in 1..Len(value.entries) : value.entries[i][1] = name

\* the object without its field of the name
OtherFields(value, name) ==
  Obj(value.ref, SelectSeq(value.entries, LAMBDA e : e[1] # name))

IsSequenceOf(value, schema) ==
  /\ value.t = "Array"
  /\ \A i \in 1..Len(value.items) : Accepts(schema, value.items[i])

(* C19: when metaSchema declares no field named key, the schema returned   *)
(* by list(metaSchema) accepts a value exactly when it is an object whose  *)
(* key field is a sequence of elements that each satisfy the payload       *)
(* schema and whose other top-level fields satisfy metaSchema; an object   *)
(* without the key field, or with a single payload under it, is rejected.  *)
C19_ListEnvelope ==
  (op = "list.safeParse" /\ FieldName(args.key) \notin ShapeKeys(args.and.shape))
    => ret = Return(Bool(
         /\ args.value.t = "Object"
         /\ HasField(args.value, FieldName(args.key))
         /\ IsSequenceOf(Get(args.value, FieldName(args.key)), args.response)
         /\ Accepts(args.and, OtherFields(args.value, FieldName(args.key)))))

C19_Witness ==
  /\ op = "list.safeParse"
  /\ args.key = Str("user")
  /\ args.response = UserSchema
  /\ args.and.unknownKeys = "strict"
  /\ args.value.t = "Object"
  /\ HasField(args.value, "user")
  /\ HasField(args.value, "total")
  /\ ret = Return(Bool(TRUE))

(* C20 as stated: item() returns an object schema declaring one field,     *)
(* named key ("data" when no key is given), with the payload schema; it    *)
(* accepts an object whose field satisfies the payload schema and rejects  *)
(* an object that lacks the field or whose field violates the payload      *)
(* schema.                                                                 *)
C20_ItemRejectsMissingField ==
  /\ op = "item" =>
       /\ ret.val.t = "ZodObject"
       /\ ret.val.shape = << <<FieldName(args.key), args.response>> >>
  /\ (op = "item.safeParse" /\ args.value.t = "Object") =>
       ret = Return(Bool(
         /\ HasField(args.value, FieldName(args.key))
         /\ Accepts(args.response, Get(args.value, FieldName(args.key)))))

(* C20 amended: the same, except that an object lacking the field is       *)
(* judged as holding undefined under it: it is rejected unless the payload *)
(* schema accepts undefined.                                               *)
C20_ItemEnvelope ==
  /\ op = "item" =>
       /\ ret.val.t = "ZodObject"
       /\ ret.val.shape = << <<FieldName(args.key), args.response>> >>
  /\ op = "item.safeParse" =>
       ret = Return(Bool(
         /\ args.value.t = "Object"
         /\ Accepts(args.response, Get(args.value, FieldName(args.key)))))

C20_Witness ==
  /\ op = "item.safeParse"
  /\ args.key = Undefined
  /\ args.response = ZodString
  /\ args.value = Obj("caller", << <<"data", Str("a")>> >>)
  /\ ret = Return(Bool(TRUE))

(***************************************************************************)
(* Claims about behaviour the operations imply.                            *)
(***************************************************************************)
NarrowingHelpers ==
  { "makeBody", "makeParams", "makeQueries", "makeHeaders", "makeCookies",
    "makeSuccessResponse", "makeErrorResponse" }

C22_SafeConvertRaisesAsConvert ==
  (op = "safeConvertRequestBody" /\ args.contentType \in RequestContentTypes)
    => ( ret.kind = "throw"
           <=> convertRequestBody(args.data, args.contentType).kind = "throw" )

(* C23: whenever convertRequestBody returns, for a payload other than null *)
(* and undefined and a request content type of the catalog, its result     *)
(* needs no further conversion: needsConversion of the result and the same *)
(* content type is false.                                                  *)
C23_ConvertedNeedsNoConversion ==
  ( /\ op = "convertRequestBody"
    /\ args.data.t \notin {"null", "undefined"}
    /\ args.contentType \in RequestContentTypes
    /\ ret.kind = "return" )
    => ~needsConversion(ret.val, args.contentType)

(* C24: for every descriptor the factory accepts, one that omits           *)
(* responseContentType included, and every supported client kind, the      *)
(* configuration's convertResponseType returns a directive and does not    *)
(* throw.                                                                  *)
C24_BoundConvertNeverRaises ==
  (op = "config.convertResponseType" /\ args.adapterType \in SupportedKinds)
    => ret.kind = "return"

OfficeTypes ==
  { "application/vnd.ms-excel", "application/vnd.ms-powerpoint", "application/msword",
    "application/vnd.openxmlformats-officedocument.spreadsheetml.sheet",
    "application/vnd.openxmlformats-officedocument.presentationml.presentation",
    "application/vnd.openxmlformats-officedocument.wordprocessingml.document" }

(* C25: every content type of the catalog's Microsoft Office group is      *)
(* classified binary, and every client kind is given the binary directive  *)
(* for it, never a directive to read text.                                 *)
C25_OfficeTypesAreBinary ==
  /\ OfficeTypes \subseteq ResponseContentTypes
  /\ (op = "contentTypeCategory" /\ args.contentType \in OfficeTypes)
       => ret = Return(Str("binary"))
  /\ (DirectiveReturned /\ args.contentType \in OfficeTypes)
       => \A f \in DOMAIN StatedDirective(ClientKind, "binary") :
            /\ f \in DOMAIN ret.val
            /\ ret.val[f] = StatedDirective(ClientKind, "binary")[f]

\* the names of the colon tokens of a template: an identifier after a ":"
ColonTokenNames(t) ==
  { SubSeq(t, i + 1, IdentEnd(t, i + 1)) :
      i \in { j \in 1..(Len(t) - 1) : CharAt(t, j) = ":" /\ CharAt(t, j + 1) \in IdentStart } }

\* the names of the brace tokens of a template: an identifier in braces
BraceTokenNames(t) ==
  { SubSeq(t, i + 1, IdentEnd(t, i + 1)) :
      i \in { j \in 1..(Len(t) - 1) :
                /\ CharAt(t, j) = "{"
                /\ CharAt(t, j + 1) \in IdentStart
                /\ IdentEnd(t, j + 1) < Len(t)
                /\ CharAt(t, IdentEnd(t, j + 1) + 1) = "}" } }

\* the values are text that holds no placeholder and no replacement pattern
PlainValues(params) ==
  \A k \in 1..Len(params) :
     LET text == StringOf(params[k][2])
     IN  ~Includes(text, ":") /\ ~Includes(text, "{") /\ ~Includes(text, "$")

(* C26: for a template whose placeholders are identifier tokens and a      *)
(* params object that supplies every one of them (here with values that    *)
(* hold no placeholder or pattern text), makeFullPath gives for the        *)
(* template the path it gives for the template's canonical form; this      *)
(* covers a placeholder followed by a character other than "/".            *)
C26_CanonicalFormResolvesAlike ==
  ( /\ op = "makeFullPath"
    /\ ColonTokenNames(entryConfig.pathShape) \cup BraceTokenNames(entryConfig.pathShape)
         \subseteq ParamNames(args.params)
    /\ PlainValues(args.params) )
    => ret = Return(Str(makeFullPath(makeOpenAPIPath(entryConfig.pathShape), args.params)))

\* the entries of params in the opposite order
ReversedEntries(params) == [k \in 1..Len(params) |-> params[Len(params) + 1 - k]]

\* C27: every value substituted by makeFullPath appears verbatim in the
\* resolved path (no other key rewrites it, none of its characters is read
\* as a replacement pattern), and the result does not depend on the order
\* of the keys of params.
C27_ValuesAppearVerbatim ==
  op = "makeFullPath" =>
    /\ \A k \in 1..Len(args.params) :
         NamesPlaceholder(entryConfig.pathShape, args.params[k][1])
           => Includes(ret.val.s, StringOf(args.params[k][2]))
    /\ ret.val.s = makeFullPath(entryConfig.pathShape, ReversedEntries(args.params))

\* an image, audio or video type, or a vnd.ms- or officedocument vendor type
BinaryFamilyType(contentType) ==
  \/ StartsWith(contentType, "image/")
  \/ StartsWith(contentType, "audio/")
  \/ StartsWith(contentType, "video/")
  \/ StartsWith(contentType, "application/vnd.ms-")
  \/ StartsWith(contentType, "application/vnd.openxmlformats-officedocument")

GitHubVendorType(contentType) == StartsWith(contentType, "application/vnd.github")

OccurrencesOf(str, pat) ==
  { i \in 1..Len(str) : i + Len(pat) - 1 <= Len(str) /\ SubSeq(str, i, i + Len(pat) - 1) = pat }

\* those followed by "/" or by the end of the string
ClosedOccurrencesOf(str, pat) ==
  { i \in OccurrencesOf(str, pat) :
      i + Len(pat) > Len(str) \/ CharAt(str, i + Len(pat)) = "/" }

\* C29: makeFullPath replaces :key only where "/" or the end of the string
\* follows (":id" stays inside ":idx" and ":id.json"), replaces {key}
\* whatever follows, and replaces every occurrence of either form: for
\* values of plain text, no {key} and no :key before "/" or the end is left
\* in the result and every other :key of the template is still there.
C29_ReplacedOccurrences ==
  ( op = "makeFullPath" /\ PlainValues(args.params) ) =>
    \A key \in ParamNames(args.params) :
      /\ OccurrencesOf(ret.val.s, "{" \o key \o "}") = {}
      /\ ClosedOccurrencesOf(ret.val.s, ":" \o key) = {}
      /\ Cardinality(OccurrencesOf(ret.val.s, ":" \o key))
           = Cardinality(OccurrencesOf(entryConfig.pathShape, ":" \o key))
               - Cardinality(ClosedOccurrencesOf(entryConfig.pathShape, ":" \o key))

\* ":id" has been left in ":id.json" and replaced at the end of the same template
C29_Witness ==
  /\ op = "makeFullPath"
  /\ entryConfig.pathShape = "/:id.json/:id"
  /\ args.params = <<<<"id", Str("9")>>>>
  /\ ret = Return(Str("/:id.json/9"))

Encodings == {"utf-8", "utf8", "ascii", "latin1", "binary", "base64", "hex"}

\* the alias table as stated
StatedEncoding(charset) ==
  CASE charset \in Encodings -> charset
    [] charset = "iso-8859-1" -> "latin1"
    [] OTHER -> "utf-8"

\* str from position i up to the next ";" or the end
RECURSIVE UpToSemicolon(_, _)
UpToSemicolon(str, i) ==
  IF i > Len(str) \/ CharAt(str, i) = ";" THEN ""
  ELSE CharAt(str, i) \o UpToSemicolon(str, i + 1)

\* the value of the charset= parameter of a content type that has one
CharsetParameter(contentType) ==
  LET first == CHOOSE i \in OccurrencesOf(contentType, "charset=") :
                  \A j \in OccurrencesOf(contentType, "charset=") : i <= j
  IN  UpToSemicolon(contentType, first + 8)

\* C30: for the generic-buffer client and a content type of the text family,
\* responseEncoding is utf-8 when the content type has no charset=
\* parameter, and otherwise the entry of the alias table for the parameter's
\* value in lower case, utf-8 for a value outside the table; it is always
\* one of utf-8, utf8, ascii, latin1, binary, base64, hex.
C30_EncodingFromAliasTable ==
  ( DirectiveReturned /\ GenericBufferClient
    /\ contentTypeCategory(args.contentType) = "text" ) =>
    /\ ret.val.responseEncoding \in Encodings
    /\ ret.val.responseEncoding
         = IF Includes(args.contentType, "charset=")
           THEN StatedEncoding(ToLowerCase(CharsetParameter(args.contentType)))
           ELSE "utf-8"

=============================================================================
